---- MODULE Spec2Model ----
(***************************************************************************)
(* Model of the product data management layer of the inventory dashboard:  *)
(* the useProducts hook (shared/hooks/useProducts), the Inventory view     *)
(* that drives it, and the catalog client calls it awaits.                 *)
(*                                                                         *)
(* Strings are sequences of one-character strings.  Instants are           *)
(* milliseconds since local midnight of day 0 of the model calendar; a     *)
(* 'YYYY-MM-DD' date is the number of its day (1, 2, ...), and null is     *)
(* Null.                                                                   *)
(***************************************************************************)
EXTENDS Integers, Sequences, FiniteSets, Bags, TLC

\* ---------------------------------------------------------------- bounds
MaxLen == 2       \* longest catalog response
MaxLoads == 2     \* fetchProducts() calls per run
MaxDay == 2       \* dates of the filter are days 1..MaxDay
MaxPage == 2      \* setPage(n) is called with n in 0..MaxPage
MaxItems == 12    \* longest collection of the pagination runs
MaxRenders == 3   \* arrays built by the renders of the Dashboard
MaxSubmits == 2   \* submissions of a product form per run
MaxDeletes == 2   \* deleteProduct() calls in flight at a time

\* ------------------------------------------------------------- constants
Null == 0
MsPerDay == 86400000
DefaultRowsPerPage == 10
RowsPerPageOptions == {5, 10, 25, 50}
NullError == "null"
LoadErrorMessage == "Error al cargar los productos. Por favor, intente nuevamente."

\* --------------------------------------------------------------- strings
UpperChars == <<"A","B","C","D","E","F","G","H","I","J","K","L","M",
                "N","O","P","Q","R","S","T","U","V","W","X","Y","Z">>
LowerChars == <<"a","b","c","d","e","f","g","h","i","j","k","l","m",
                "n","o","p","q","r","s","t","u","v","w","x","y","z">>

\* the cased letters of Latin-1 beyond A-Z: U+00C0..U+00DE without U+00D7
UpperAccented == <<"À","Á","Â","Ã","Ä","Å","Æ","Ç","È","É","Ê","Ë","Ì","Í","Î","Ï",
                   "Ð","Ñ","Ò","Ó","Ô","Õ","Ö","Ø","Ù","Ú","Û","Ü","Ý","Þ">>
LowerAccented == <<"à","á","â","ã","ä","å","æ","ç","è","é","ê","ë","ì","í","î","ï",
                   "ð","ñ","ò","ó","ô","õ","ö","ø","ù","ú","û","ü","ý","þ">>

UpperLetters == UpperChars \o UpperAccented
LowerLetters == LowerChars \o LowerAccented

\* String.prototype.toLowerCase, one character.  The characters of the model
\* are those of Latin-1 (U+0000..U+00FF), whose upper-case letters are A-Z and
\* UpperAccented; every other character of that range is its own lower case.
\* Characters beyond Latin-1 are outside the model.
LowerOf ==
    [u \in {UpperLetters[i] : i \in 1..Len(UpperLetters)} |->
        LowerLetters[CHOOSE i \in 1..Len(UpperLetters) : UpperLetters[i] = u]]

ToLowerChar(c) == IF c \in DOMAIN LowerOf THEN LowerOf[c] ELSE c

\* String.prototype.toLowerCase
ToLowerCase(s) == [i \in 1..Len(s) |-> ToLowerChar(s[i])]

\* String.prototype.includes: needle occurs in hay at some offset
Includes(hay, needle) ==
    \E k \in 0..(Len(hay) - Len(needle)) :
        \A j \in 1..Len(needle) : hay[k + j] = needle[j]

\* ----------------------------------------------------------------- dayjs
\* dayjs('YYYY-MM-DD'): local midnight of that day
DayjsDate(d) == d * MsPerDay

\* endOf("day") left out: the end date bounds at its midnight
EndOfDay_Midnight(t) == t

\* dayjs(...).endOf("day"): 23:59:59.999 of the instant's day
EndOfDay(t) == (t \div MsPerDay) * MsPerDay + (MsPerDay - 1)

IsBefore(a, b) == a < b
IsAfter(a, b) == a > b

\* ---------------------------------------------------------------- arrays
Min(a, b) == IF a < b THEN a ELSE b
Max(a, b) == IF a > b THEN a ELSE b

\* Array.prototype.slice(start, end) with its clamping of both indexes
Slice(s, start, end) ==
    LET n == Len(s)
        from == IF start < 0 THEN Max(n + start, 0) ELSE Min(start, n)
        to == IF end < 0 THEN Max(n + end, 0) ELSE Min(end, n)
    IN  IF from >= to THEN <<>> ELSE [i \in 1..(to - from) |-> s[from + i]]

\* Math.ceil(a / b) for a >= 0, b > 0
\* the quotient rounded down
CeilDiv_Floor(a, b) == a \div b

CeilDiv(a, b) == (a + b - 1) \div b

\* -------------------------------------------------------------- products
RedShirt == <<"R","e","d"," ","S","h","i","r","t">>
BlueHat == <<"B","l","u","e"," ","H","a","t">>
Tee == <<"T","e","e">>

TitleOf(i) == IF i = 1 THEN RedShirt ELSE IF i = 2 THEN BlueHat ELSE Tee

\* the catalog's record of product i: created at noon of day i
ProductOf(i) ==
    [id |-> i, title |-> TitleOf(i), creationAt |-> i * MsPerDay + (MsPerDay \div 2)]

ProductIds == {1, 2}

Catalog == {ProductOf(i) : i \in ProductIds}

SeqsUpTo(S, n) == UNION {[1..k -> S] : k \in 0..n}

\* what GET /products may answer
Responses == SeqsUpTo(Catalog, MaxLen)

Shirt == <<"s","h","i","r","t">>
SearchTerms == {<<>>, Shirt}
Dates == {Null} \cup (1..MaxDay)
DateRanges == [start : Dates, end : Dates]

\* ------------------------------------------------------------------ state
VARIABLES
    mounted,         \* the mount effect of useProducts has run
    allProducts,     \* useState([]): the products obtained from the API
    loading,         \* useState(true)
    error,           \* useState(null)
    page,            \* useState(0)
    searchTerm,      \* useState("")
    dateRange,       \* useState({start: null, end: null})
    rowsPerPage,     \* Inventory: useState(10), passed as options.pageSize
    loads,           \* the fetchProducts() calls in issue order: status, and while pending the set at the call
    pendingDeletes,  \* the bag of ids of the deleteProduct(id) calls that have not settled
    metrics,         \* Dashboard: useDashboardMetrics(allProducts), as of the last render
    arrays,          \* how many arrays filter() has built for the Dashboard; the last built is array number `arrays`
    route,           \* the page the router shows: "dashboard", "inventory", "new" or "edit"
    paginated,       \* options.paginated of the useProducts call of the page shown
    form,            \* NewProduct / EditProduct: isSubmitting, snackbar, requests in flight, navigate timers armed
    memo,            \* useMemo of useDashboardMetrics: the array it last computed for (deps) and how often it computed (runs)
    last             \* the operation that ran last, its argument, result and the state it found

vars == <<mounted, allProducts, loading, error, page, searchTerm, dateRange,
          rowsPerPage, loads, pendingDeletes, metrics, arrays, memo, route, paginated,
          form, last>>

dashVars == <<metrics, arrays, memo>>
\* what the router decides: the page shown, the option it passes to its hook,
\* and the state of its form
formVars == <<route, paginated, form>>

\* the state an operation found, recorded in last
Snapshot ==
    [allProducts |-> allProducts, loading |-> loading, error |-> error, page |-> page,
     rowsPerPage |-> rowsPerPage]

\* the record of an operation; a settled load also records the set its call found
\* (started) and the response it got (data), a filter setter whether it changed
\* the filter
DidLoad(op, arg, started, data) ==
    [op |-> op, arg |-> arg, result |-> "void", prev |-> Snapshot,
     started |-> started, data |-> data, changed |-> FALSE]

DidSetFilter(op, changed) ==
    [op |-> op, arg |-> 0, result |-> "void", prev |-> Snapshot,
     started |-> <<>>, data |-> <<>>, changed |-> changed]

Did(op, arg, result) ==
    [op |-> op, arg |-> arg, result |-> result, prev |-> Snapshot,
     started |-> <<>>, data |-> <<>>, changed |-> FALSE]

\* ---------------------------------------------------------- derived views
\* the predicate of allProducts.filter(...) in useProducts
MatchesSearch(product, term) ==
    Includes(ToLowerCase(product.title), ToLowerCase(term))

\* a product passing when it is inside either bound
MatchesDate_Either(product, range) ==
    IF range.start # Null \/ range.end # Null
    THEN LET productDate == product.creationAt
             beforeStart == range.start # Null /\ IsBefore(productDate, DayjsDate(range.start))
             afterEnd == range.end # Null /\ IsAfter(productDate, EndOfDay(DayjsDate(range.end)))
         IN  ~beforeStart \/ ~afterEnd
    ELSE TRUE

MatchesDate(product, range) ==
    IF range.start # Null \/ range.end # Null
    THEN LET productDate == product.creationAt
             beforeStart == range.start # Null /\ IsBefore(productDate, DayjsDate(range.start))
             afterEnd == range.end # Null /\ IsAfter(productDate, EndOfDay(DayjsDate(range.end)))
         IN  ~beforeStart /\ ~afterEnd
    ELSE TRUE

RECURSIVE FilterProducts(_, _, _)
FilterProducts(products, term, range) ==
    IF products = <<>> THEN <<>>
    ELSE LET product == Head(products)
             rest == FilterProducts(Tail(products), term, range)
         IN  IF MatchesSearch(product, term) /\ MatchesDate(product, range)
             THEN <<product>> \o rest
             ELSE rest

filteredProducts == FilterProducts(allProducts, searchTerm, dateRange)

\* the slice starting one element late
PaginateProducts_OffByOne(filtered, p, pageSize) ==
    Slice(filtered, p * pageSize + 1, (p + 1) * pageSize)

\* filteredProducts.slice(page * pageSize, (page + 1) * pageSize)
PaginateProducts(filtered, p, pageSize) == Slice(filtered, p * pageSize, (p + 1) * pageSize)

\* paginated ? filteredProducts.slice(...) : filteredProducts
paginatedProducts ==
    IF paginated THEN PaginateProducts(filteredProducts, page, rowsPerPage)
    ELSE filteredProducts

totalPages == CeilDiv(Len(filteredProducts), rowsPerPage)

\* only the first record of the id removed
RECURSIVE RemoveFirstById(_, _)
RemoveFirstById(prev, id) ==
    IF prev = <<>> THEN <<>>
    ELSE IF Head(prev).id # id THEN <<Head(prev)>> \o RemoveFirstById(Tail(prev), id)
         ELSE Tail(prev)

\* the test of the filter inverted: only the records of the id are kept
RECURSIVE RemoveById_KeepOnly(_, _)
RemoveById_KeepOnly(prev, id) ==
    IF prev = <<>> THEN <<>>
    ELSE IF Head(prev).id = id THEN <<Head(prev)>> \o RemoveById_KeepOnly(Tail(prev), id)
         ELSE RemoveById_KeepOnly(Tail(prev), id)

\* prev.filter((p) => p.id !== id)
RECURSIVE RemoveById(_, _)
RemoveById(prev, id) ==
    IF prev = <<>> THEN <<>>
    ELSE IF Head(prev).id # id THEN <<Head(prev)>> \o RemoveById(Tail(prev), id)
         ELSE RemoveById(Tail(prev), id)

\* ------------------------------------------------------ dashboard metrics
\* A price is a decimal number with three fraction digits, held as its number
\* of thousandths (10.005 is 10005); a Decimal holds the same number exactly.
\* A product's category is <<>> when absent and <<[name |-> ...]>> otherwise.
DigitChars == <<"0","1","2","3","4","5","6","7","8","9">>

RECURSIVE NatToString(_)
NatToString(n) ==
    IF n < 10 THEN <<DigitChars[n + 1]>>
    ELSE NatToString(n \div 10) \o <<DigitChars[(n % 10) + 1]>>

\* Decimal.toFixed(2) of a non-negative Decimal, rounding half up (the default
\* rounding mode of decimal.js)
ToFixed2(thousandths) ==
    LET hundredths == (thousandths + 5) \div 10
    IN  NatToString(hundredths \div 100) \o <<".">> \o
        <<DigitChars[((hundredths % 100) \div 10) + 1], DigitChars[(hundredths % 10) + 1]>>

\* product.price || 0: a price of 0 is falsy
PriceOrZero(product) == IF product.price = 0 THEN 0 ELSE product.price

\* every price rounded to two digits before it is added
RECURSIVE SumPrices_RoundEach(_)
SumPrices_RoundEach(products) ==
    IF products = <<>> THEN 0
    ELSE SumPrices_RoundEach(SubSeq(products, 1, Len(products) - 1))
         + ((PriceOrZero(products[Len(products)]) + 5) \div 10) * 10

\* products.reduce((acc, product) => acc.plus(new Decimal(product.price || 0)), new Decimal(0))
RECURSIVE SumPrices(_)
SumPrices(products) ==
    IF products = <<>> THEN 0
    ELSE SumPrices(SubSeq(products, 1, Len(products) - 1)) + PriceOrZero(products[Len(products)])

TotalInventoryValue(products) == ToFixed2(SumPrices(products))

NA == <<"N","/","A">>
SinCategoria == <<"S","i","n"," ","c","a","t","e","g","o","r","í","a">>

\* product.category?.name || "Sin categoría"
CategoryName(product) ==
    IF product.category = <<>> THEN SinCategoria
    ELSE IF product.category[1].name = <<>> THEN SinCategoria
    ELSE product.category[1].name

ProtoKey == <<"_","_","p","r","o","t","o","_","_">>

\* acc[categoryName] = (acc[categoryName] || 0) + 1, the object held as its
\* properties in the order of their creation.  acc is a plain object: under
\* the key "__proto__" it reads Object.prototype, and the assignment of the
\* string Object.prototype + 1 to that key is ignored, so no property is
\* created.  (The other names inherited from Object.prototype, "constructor",
\* "toString" and the like, are no category name of this model.)
CountInto(acc, categoryName) ==
    IF categoryName = ProtoKey THEN acc
    ELSE IF \E k \in 1..Len(acc) : acc[k].name = categoryName
    THEN [k \in 1..Len(acc) |->
             IF acc[k].name = categoryName
             THEN [name |-> categoryName, count |-> acc[k].count + 1]
             ELSE acc[k]]
    ELSE Append(acc, [name |-> categoryName, count |-> 1])

RECURSIVE CategoryCount(_)
CategoryCount(products) ==
    IF products = <<>> THEN <<>>
    ELSE CountInto(CategoryCount(SubSeq(products, 1, Len(products) - 1)),
                   CategoryName(products[Len(products)]))

\* a property key that is an array index: a canonical decimal numeral (names of
\* up to 9 digits, all below 2^32 - 1)
IsArrayIndex(key) ==
    /\ Len(key) \in 1..9
    /\ \A i \in 1..Len(key) : \E d \in 1..10 : DigitChars[d] = key[i]
    /\ Len(key) > 1 => key[1] # "0"

RECURSIVE IndexValue(_)
IndexValue(key) ==
    IF key = <<>> THEN 0
    ELSE IndexValue(SubSeq(key, 1, Len(key) - 1)) * 10
         + (CHOOSE d \in 0..9 : DigitChars[d + 1] = key[Len(key)])

\* Object.entries(obj): the array-index keys in ascending numeric order first,
\* then the other keys in the order of their creation
ObjectEntries(obj) ==
    LET IsIndex(e) == IsArrayIndex(e.name)
        IsOther(e) == ~IsArrayIndex(e.name)
        indexed == SelectSeq(obj, IsIndex)
        others == SelectSeq(obj, IsOther)
        Below(e) == Cardinality({k \in 1..Len(indexed) :
                                    IndexValue(indexed[k].name) < IndexValue(e.name)})
        ascending == [r \in 1..Len(indexed) |->
                         indexed[CHOOSE k \in 1..Len(indexed) : Below(indexed[k]) = r - 1]]
    IN  ascending \o others

\* entries.reduce((max, [name, count]) => (count > max.count ? {name, count} : max), {name: "N/A", count: 0})
RECURSIVE TopOf(_)
TopOf(entries) ==
    IF entries = <<>> THEN [name |-> NA, count |-> 0]
    ELSE LET max == TopOf(SubSeq(entries, 1, Len(entries) - 1))
             e == entries[Len(entries)]
         IN  IF e.count > max.count THEN [name |-> e.name, count |-> e.count] ELSE max

TopCategory(products) == TopOf(ObjectEntries(CategoryCount(products)))

\* Object.entries(categoryCount).map(([name, value]) => ({name, value}))
CategoryDistribution(products) ==
    LET entries == ObjectEntries(CategoryCount(products))
    IN  [k \in 1..Len(entries) |-> [name |-> entries[k].name, value |-> entries[k].count]]

\* the ranks exchanged among products of equal key
RECURSIVE SortedPositions_TiesReversed(_, _)
SortedPositions_TiesReversed(keys, n) ==
    IF n = 0 THEN <<>>
    ELSE LET sorted == SortedPositions_TiesReversed(keys, n - 1)
             before == Cardinality({k \in 1..Len(sorted) : keys[sorted[k]] > keys[n]})
         IN  SubSeq(sorted, 1, before) \o <<n>> \o SubSeq(sorted, before + 1, Len(sorted))

\* [...products].sort((a, b) => key(b) - key(a)) as the positions of the first n
\* products in their sorted order; Array.prototype.sort is stable, so a product
\* goes behind every earlier product whose key is not smaller
RECURSIVE SortedPositions(_, _)
SortedPositions(keys, n) ==
    IF n = 0 THEN <<>>
    ELSE LET sorted == SortedPositions(keys, n - 1)
             before == Cardinality({k \in 1..Len(sorted) : keys[sorted[k]] >= keys[n]})
         IN  SubSeq(sorted, 1, before) \o <<n>> \o SubSeq(sorted, before + 1, Len(sorted))

TopCount == 5
TitleLimit == 30

\* p.title.length > 30 ? `${p.title.substring(0, 30)}...` : p.title
ShortTitle(title) ==
    IF Len(title) > TitleLimit THEN Slice(title, 0, TitleLimit) \o <<".", ".", ".">>
    ELSE title

\* [...products].sort((a, b) => b.price - a.price).slice(0, 5).map(...)
TopExpensiveProducts(products) ==
    LET positions == SortedPositions([i \in 1..Len(products) |-> products[i].price], Len(products))
        sorted == [k \in 1..Len(products) |-> products[positions[k]]]
        top == Slice(sorted, 0, TopCount)
    IN  [k \in 1..Len(top) |-> [title |-> ShortTitle(top[k].title), price |-> top[k].price]]

\* the five oldest products instead of the five most recent
RecentProducts_OldestFirst(products) ==
    LET positions == SortedPositions([i \in 1..Len(products) |-> 0 - products[i].creationAt], Len(products))
        sorted == [k \in 1..Len(products) |-> products[positions[k]]]
    IN  Slice(sorted, 0, TopCount)

\* [...products].sort((a, b) => dayjs(b.creationAt).valueOf() - dayjs(a.creationAt).valueOf()).slice(0, 5)
RecentProducts(products) ==
    LET positions == SortedPositions([i \in 1..Len(products) |-> products[i].creationAt], Len(products))
        sorted == [k \in 1..Len(products) |-> products[positions[k]]]
    IN  Slice(sorted, 0, TopCount)

\* the empty state with the total left unformatted
ZeroMetrics_Unformatted ==
    [totalProducts |-> 0,
     totalInventoryValue |-> <<"0">>,
     topCategory |-> [name |-> NA, count |-> 0],
     categoryDistribution |-> <<>>,
     topExpensiveProducts |-> <<>>,
     recentProducts |-> <<>>]

\* the value returned when !products || !products.length
ZeroMetrics ==
    [totalProducts |-> 0,
     totalInventoryValue |-> <<"0", ".", "0", "0">>,
     topCategory |-> [name |-> NA, count |-> 0],
     categoryDistribution |-> <<>>,
     topExpensiveProducts |-> <<>>,
     recentProducts |-> <<>>]

\* the function memoized by useDashboardMetrics
useDashboardMetrics(products) ==
    IF Len(products) = 0 THEN ZeroMetrics
    ELSE [totalProducts |-> Len(products),
          totalInventoryValue |-> TotalInventoryValue(products),
          topCategory |-> TopCategory(products),
          categoryDistribution |-> CategoryDistribution(products),
          topExpensiveProducts |-> TopExpensiveProducts(products),
          recentProducts |-> RecentProducts(products)]

\* ------------------------------------------------------------------- init
\* a form page as constructed: useState(false) for isSubmitting, the snackbar
\* closed; no createProduct / updateProduct call in flight, no setTimeout armed
NoSubmission ==
    [isSubmitting |-> FALSE, snackbar |-> "none", requests |-> 0, timers |-> 0, submits |-> 0]

\* the Dashboard after its first render: the hook starts from useState([]), its
\* filter() built array 1 and useMemo computed the metrics of that array
DashboardInit ==
    /\ metrics = useDashboardMetrics(<<>>)
    /\ arrays = 1
    /\ memo = [deps |-> 1, runs |-> 1]

\* useProducts({paginated: true, pageSize: rowsPerPage}) in Inventory,
\* useProducts({paginated: false}) in Dashboard; the form pages do not call the
\* hook, the option keeps its default
PaginatedAt(path) == path # "dashboard"

\* the router shows the page of `path`
Shows(path) ==
    /\ route = path
    /\ paginated = PaginatedAt(path)

ViewInit ==
    /\ page = 0
    /\ searchTerm = <<>>
    /\ dateRange = [start |-> Null, end |-> Null]
    /\ rowsPerPage = DefaultRowsPerPage
    /\ DashboardInit
    /\ form = NoSubmission

Init ==
    /\ mounted = FALSE
    /\ allProducts = <<>>
    /\ loading = TRUE
    /\ error = NullError
    /\ ViewInit
    /\ Shows("inventory")
    /\ loads = <<>>
    /\ pendingDeletes = EmptyBag
    /\ last = [op |-> "init", arg |-> 0, result |-> "none",
               prev |-> [allProducts |-> <<>>, loading |-> TRUE, error |-> NullError,
                         page |-> 0, rowsPerPage |-> DefaultRowsPerPage],
               started |-> <<>>, data |-> <<>>, changed |-> FALSE]

viewVars == <<page, searchTerm, dateRange, rowsPerPage, dashVars, formVars>>

\* ------------------------------------------------------------ fetchProducts
\* fetchProducts up to its await: setLoading(true); setError(null); getAllProducts()
FetchProductsCall ==
    /\ loading' = TRUE
    /\ error' = NullError
    /\ loads' = Append(loads, [status |-> "pending", startSet |-> allProducts])
    /\ UNCHANGED <<allProducts, pendingDeletes, viewVars>>

\* useEffect(() => { fetchProducts(); }, [fetchProducts])
MountEffect ==
    /\ route \in {"inventory", "dashboard"}
    /\ ~mounted
    /\ mounted' = TRUE
    /\ FetchProductsCall
    /\ last' = Did("mount", Len(loads) + 1, "void")

\* refreshProducts: fetchProducts called again by a consumer of the hook
RefreshProducts ==
    /\ mounted
    /\ Len(loads) < MaxLoads
    /\ FetchProductsCall
    /\ last' = Did("refreshProducts", Len(loads) + 1, "void")
    /\ UNCHANGED mounted

\* the response appended to the previous set instead of replacing it
FetchProductsResolve_Merge(n, data) ==
    /\ n \in 1..Len(loads)
    /\ loads[n].status = "pending"
    /\ allProducts' = allProducts \o data
    /\ loading' = FALSE
    /\ loads' = [loads EXCEPT ![n] = [status |-> "ok", startSet |-> <<>>]]
    /\ last' = DidLoad("loadOk", n, loads[n].startSet, data)
    /\ UNCHANGED <<mounted, error, pendingDeletes, viewVars>>

\* getAllProducts() of call n resolved with data: setAllProducts(data); finally setLoading(false)
FetchProductsResolve(n, data) ==
    /\ n \in 1..Len(loads)
    /\ loads[n].status = "pending"
    /\ allProducts' = data
    /\ loading' = FALSE
    /\ loads' = [loads EXCEPT ![n] = [status |-> "ok", startSet |-> <<>>]]
    /\ last' = DidLoad("loadOk", n, loads[n].startSet, data)
    /\ UNCHANGED <<mounted, error, pendingDeletes, viewVars>>

\* a failed load calling fetchProducts again by itself
FetchProductsReject_Retries(n) ==
    /\ n \in 1..Len(loads)
    /\ loads[n].status = "pending"
    /\ error' = IF Len(loads) < MaxLoads THEN NullError ELSE LoadErrorMessage
    /\ loading' = (Len(loads) < MaxLoads)
    /\ loads' = LET settled == [loads EXCEPT ![n] = [status |-> "failed", startSet |-> <<>>]]
                IN  IF Len(loads) < MaxLoads
                    THEN Append(settled, [status |-> "pending", startSet |-> allProducts])
                    ELSE settled
    /\ last' = DidLoad("loadFail", n, loads[n].startSet, <<>>)
    /\ UNCHANGED <<mounted, allProducts, pendingDeletes, viewVars>>

\* a failed load dropping the set it had
FetchProductsReject_Clears(n) ==
    /\ n \in 1..Len(loads)
    /\ loads[n].status = "pending"
    /\ allProducts' = <<>>
    /\ error' = LoadErrorMessage
    /\ loading' = FALSE
    /\ loads' = [loads EXCEPT ![n] = [status |-> "failed", startSet |-> <<>>]]
    /\ last' = DidLoad("loadFail", n, loads[n].startSet, <<>>)
    /\ UNCHANGED <<mounted, pendingDeletes, viewVars>>

\* getAllProducts() of call n rejected: catch setError(...); finally setLoading(false)
FetchProductsReject(n) ==
    /\ n \in 1..Len(loads)
    /\ loads[n].status = "pending"
    /\ error' = LoadErrorMessage
    /\ loading' = FALSE
    /\ loads' = [loads EXCEPT ![n] = [status |-> "failed", startSet |-> <<>>]]
    /\ last' = DidLoad("loadFail", n, loads[n].startSet, <<>>)
    /\ UNCHANGED <<mounted, allProducts, pendingDeletes, viewVars>>

\* ------------------------------------------------------ handleDeleteProduct
\* handleDeleteProduct(id) up to its await: deleteProduct(id).  Nothing keeps
\* a second call for the same id from being made while the first is in flight.
HandleDeleteProductCall(id) ==
    /\ mounted
    /\ BagCardinality(pendingDeletes) < MaxDeletes
    /\ pendingDeletes' = pendingDeletes (+) SetToBag({id})
    /\ last' = Did("deleteCall", id, "none")
    /\ UNCHANGED <<mounted, allProducts, loading, error, loads, viewVars>>

\* deleteProduct(id) resolved: setAllProducts(prev => prev.filter(...)); return true
HandleDeleteProductResolve(id) ==
    /\ BagIn(id, pendingDeletes)
    /\ pendingDeletes' = pendingDeletes (-) SetToBag({id})
    /\ allProducts' = RemoveById(allProducts, id)
    /\ last' = Did("deleteOk", id, "true")
    /\ UNCHANGED <<mounted, loading, error, loads, viewVars>>

\* an optimistic delete that is not rolled back when the catalog refuses
HandleDeleteProductReject_Optimistic(id) ==
    /\ BagIn(id, pendingDeletes)
    /\ pendingDeletes' = pendingDeletes (-) SetToBag({id})
    /\ allProducts' = RemoveById(allProducts, id)
    /\ last' = Did("deleteFail", id, "false")
    /\ UNCHANGED <<mounted, loading, error, loads, viewVars>>

\* deleteProduct(id) rejected: catch, return false
HandleDeleteProductReject(id) ==
    /\ BagIn(id, pendingDeletes)
    /\ pendingDeletes' = pendingDeletes (-) SetToBag({id})
    /\ last' = Did("deleteFail", id, "false")
    /\ UNCHANGED <<mounted, allProducts, loading, error, loads, viewVars>>

managerVars == <<mounted, allProducts, loading, error, loads, pendingDeletes>>

\* ------------------------------------------------- filter and page setters
\* a search box that also starts a load of the catalog
SetSearchTerm_Refetch(term) ==
    /\ mounted
    /\ searchTerm' = term
    /\ loading' = TRUE
    /\ error' = NullError
    /\ loads' = IF Len(loads) < MaxLoads
                THEN Append(loads, [status |-> "pending", startSet |-> allProducts])
                ELSE loads
    /\ last' = DidSetFilter("setSearchTerm", term # searchTerm)
    /\ UNCHANGED <<mounted, allProducts, pendingDeletes, page, dateRange, rowsPerPage, dashVars, formVars>>

\* setSearchTerm: the useState setter, as returned by the hook
SetSearchTerm(term) ==
    /\ mounted
    /\ searchTerm' = term
    /\ last' = DidSetFilter("setSearchTerm", term # searchTerm)
    /\ UNCHANGED <<managerVars, dashVars, formVars, page, dateRange, rowsPerPage>>

\* setDateRange: the useState setter, as returned by the hook
SetDateRange(range) ==
    /\ mounted
    /\ dateRange' = range
    /\ last' = DidSetFilter("setDateRange", range # dateRange)
    /\ UNCHANGED <<managerVars, dashVars, formVars, page, searchTerm, rowsPerPage>>

\* setPage: the useState setter, as returned by the hook
SetPage(n) ==
    /\ mounted
    /\ page' = n
    /\ last' = Did("setPage", n, "void")
    /\ UNCHANGED <<managerVars, dashVars, formVars, searchTerm, dateRange, rowsPerPage>>

\* the page size changed without going back to the first page
HandleRowsPerPageChange_NoReset(newRowsPerPage) ==
    /\ mounted
    /\ rowsPerPage' = newRowsPerPage
    /\ last' = Did("handleRowsPerPageChange", newRowsPerPage, "void")
    /\ UNCHANGED <<managerVars, dashVars, formVars, page, searchTerm, dateRange>>

\* Inventory.handleRowsPerPageChange: setRowsPerPage(newRowsPerPage); setPage(0)
HandleRowsPerPageChange(newRowsPerPage) ==
    /\ mounted
    /\ rowsPerPage' = newRowsPerPage
    /\ page' = 0
    /\ last' = Did("handleRowsPerPageChange", newRowsPerPage, "void")
    /\ UNCHANGED <<managerVars, dashVars, formVars, searchTerm, dateRange>>

\* the clear button resetting the search box only
HandleClearFilters_SearchOnly ==
    /\ mounted
    /\ searchTerm # <<>> \/ dateRange.start # Null \/ dateRange.end # Null
    /\ searchTerm' = <<>>
    /\ last' = Did("handleClearFilters", Len(filteredProducts), "void")
    /\ UNCHANGED <<managerVars, dashVars, formVars, page, dateRange, rowsPerPage>>

\* ProductFilters.handleClearFilters: onSearchChange(""); onDateRangeChange({start:
\* null, end: null}); the button is rendered only while hasFilters.  The
\* operation records how many products the view showed before.
HandleClearFilters ==
    /\ mounted
    /\ searchTerm # <<>> \/ dateRange.start # Null \/ dateRange.end # Null
    /\ searchTerm' = <<>>
    /\ dateRange' = [start |-> Null, end |-> Null]
    /\ last' = Did("handleClearFilters", Len(filteredProducts), "void")
    /\ UNCHANGED <<managerVars, dashVars, formVars, page, rowsPerPage>>

\* ProductFilters, "Fecha desde": onDateRangeChange({...dateRange, start:
\* e.target.value || null}).  The value is what the user picked or typed (Null
\* for an emptied input); the max attribute of the input restricts the picker,
\* the handler itself checks nothing.
HandleStartDateChange(value) ==
    /\ mounted
    /\ dateRange' = [dateRange EXCEPT !.start = IF value = Null THEN Null ELSE value]
    /\ last' = Did("startDateChange", value, "void")
    /\ UNCHANGED <<managerVars, dashVars, formVars, page, searchTerm, rowsPerPage>>

\* ProductFilters, "Fecha hasta": onDateRangeChange({...dateRange, end:
\* e.target.value || null})
HandleEndDateChange(value) ==
    /\ mounted
    /\ dateRange' = [dateRange EXCEPT !.end = IF value = Null THEN Null ELSE value]
    /\ last' = Did("endDateChange", value, "void")
    /\ UNCHANGED <<managerVars, dashVars, formVars, page, searchTerm, rowsPerPage>>

\* a render of the Dashboard: const metrics = useDashboardMetrics(allProducts),
\* where allProducts is the filtered view the hook returns
\* the sort by price done on the authoritative array itself
DashboardRender_SortsInPlace ==
    /\ route = "dashboard"
    /\ mounted
    /\ arrays < MaxRenders
    /\ LET products == arrays + 1
           positions == SortedPositions([i \in 1..Len(allProducts) |-> allProducts[i].price],
                                        Len(allProducts))
       IN  /\ arrays' = products
           /\ allProducts' = [k \in 1..Len(allProducts) |-> allProducts[positions[k]]]
           /\ metrics' = useDashboardMetrics(filteredProducts)
           /\ memo' = [deps |-> products, runs |-> memo.runs + 1]
           /\ last' = Did("render", Len(filteredProducts), "computed")
    /\ UNCHANGED <<mounted, loading, error, loads, pendingDeletes, formVars, page, searchTerm,
                   dateRange, rowsPerPage>>

\* useProducts runs allProducts.filter(...) in every render and returns that new
\* array as allProducts; useMemo(..., [products]) runs the function again when
\* the array is not the one of its last run.
DashboardRender ==
    /\ route = "dashboard"
    /\ mounted
    /\ arrays < MaxRenders
    /\ LET products == arrays + 1
           changed == products # memo.deps
       IN  /\ arrays' = products
           /\ metrics' = IF changed THEN useDashboardMetrics(filteredProducts) ELSE metrics
           /\ memo' = IF changed THEN [deps |-> products, runs |-> memo.runs + 1] ELSE memo
           /\ last' = Did("render", Len(filteredProducts), IF changed THEN "computed" ELSE "cached")
    /\ UNCHANGED <<managerVars, formVars, page, searchTerm, dateRange, rowsPerPage>>

\* ------------------------------------------------- routes and form pages
\* The router shows one page at a time.  Leaving a page unmounts it and its
\* useProducts; arriving at Inventory or Dashboard constructs the page and its
\* hook, whose mount effect runs after the commit (MountEffect).  navigate() to
\* the page already shown mounts nothing.  A Dashboard arrived at is
\* constructed anew: its hook starts from useState([]), its first render
\* builds array 1 and useMemo computes the metrics of no products; the same
\* values stand for a Dashboard that is not mounted.  React runs the effects of a page
\* it has committed before it renders another one, so a page is left only
\* after its mount effect has run.
EffectPending == route \in {"inventory", "dashboard"} /\ ~mounted

Routes == {"dashboard", "inventory", "new", "edit"}

NavigateTo(path) ==
    /\ route' = path
    /\ IF path = route
       THEN UNCHANGED <<managerVars, page, searchTerm, dateRange, rowsPerPage>>
       ELSE /\ ~EffectPending
            /\ mounted' = FALSE
            /\ allProducts' = <<>>
            /\ loading' = TRUE
            /\ error' = NullError
            /\ loads' = <<>>
            /\ pendingDeletes' = EmptyBag
            /\ page' = 0
            /\ searchTerm' = <<>>
            /\ dateRange' = [start |-> Null, end |-> Null]
            /\ rowsPerPage' = DefaultRowsPerPage
    /\ paginated' = PaginatedAt(path)
    /\ IF path = route
       THEN UNCHANGED dashVars
       ELSE /\ metrics' = useDashboardMetrics(<<>>)
            /\ arrays' = 1
            /\ memo' = [deps |-> 1, runs |-> 1]
    /\ last' = Did("navigate", 0, "void")

\* the state of the form page after navigate(path): a page that is left is
\* unmounted and a form page arrived at is constructed anew
FormAfter(f, path) ==
    IF path = route THEN f ELSE [f EXCEPT !.isSubmitting = FALSE, !.snackbar = "none"]

\* Layout.handleNavigation(path) for the three drawer items; Inventory's edit
\* button (navigate to /products/edit/:id); the forms' cancel button, disabled
\* while isSubmitting
Navigation(path) ==
    /\ path # route
    /\ path = "edit" => route = "inventory"
    /\ form' = FormAfter(form, path)
    /\ NavigateTo(path)

\* handleSubmit up to its await: setIsSubmitting(true); createProduct(data) or
\* updateProduct(id, data).  The submit button is disabled while isSubmitting.
HandleSubmitCall ==
    /\ route \in {"new", "edit"}
    /\ ~form.isSubmitting
    /\ form.submits < MaxSubmits
    /\ form' = [form EXCEPT !.isSubmitting = TRUE, !.requests = @ + 1, !.submits = @ + 1]
    /\ last' = Did("submit", form.submits + 1, "void")
    /\ UNCHANGED <<route, paginated, managerVars, page, searchTerm, dateRange, rowsPerPage, dashVars>>

\* a request in flight is the one of the form page shown (own) or one of a form
\* page that has been left since, whose state setters no longer do anything
InFlight(own) ==
    IF own THEN form.isSubmitting
    ELSE form.requests > (IF form.isSubmitting THEN 1 ELSE 0)

\* handleSubmit after its await resolved: the success snackbar,
\* setTimeout(() => navigate("/inventory"), 1500), and setIsSubmitting(false)
HandleSubmitResolve(own) ==
    /\ InFlight(own)
    /\ form' = [form EXCEPT !.requests = @ - 1, !.timers = @ + 1,
                            !.snackbar = IF own THEN "success" ELSE @,
                            !.isSubmitting = IF own THEN FALSE ELSE @]
    /\ last' = Did("submitOk", 0, "void")
    /\ UNCHANGED <<route, paginated, managerVars, page, searchTerm, dateRange, rowsPerPage, dashVars>>

\* handleSubmit after its await rejected: the error snackbar and
\* setIsSubmitting(false)
HandleSubmitReject(own) ==
    /\ InFlight(own)
    /\ form' = [form EXCEPT !.requests = @ - 1,
                            !.snackbar = IF own THEN "error" ELSE @,
                            !.isSubmitting = IF own THEN FALSE ELSE @]
    /\ last' = Did("submitFail", 0, "void")
    /\ UNCHANGED <<route, paginated, managerVars, page, searchTerm, dateRange, rowsPerPage, dashVars>>

\* handleCloseSnackbar: setSnackbar(prev => ({...prev, open: false})), the
\* onClose of the Snackbar (after autoHideDuration, or on a click away) and of
\* its Alert; there is something to close only while the snackbar is open
HandleCloseSnackbar ==
    /\ route \in {"new", "edit"}
    /\ form.snackbar # "none"
    /\ form' = [form EXCEPT !.snackbar = "none"]
    /\ last' = Did("closeSnackbar", 0, "void")
    /\ UNCHANGED <<route, paginated, managerVars, page, searchTerm, dateRange, rowsPerPage, dashVars>>

\* the callback of setTimeout: navigate("/inventory").  The timer is never
\* cleared, so it fires whatever page is shown by then.
NavigateTimer ==
    /\ form.timers > 0
    /\ form' = [FormAfter(form, "inventory") EXCEPT !.timers = @ - 1]
    /\ NavigateTo("inventory")

\* ------------------------------------------------------------------- next
\* the asynchronous operations of the hook: load and remove
Next ==
    \/ MountEffect
    \/ RefreshProducts
    \/ \E n \in 1..MaxLoads, data \in Responses : FetchProductsResolve(n, data)
    \/ \E n \in 1..MaxLoads : FetchProductsReject(n)
    \/ \E id \in ProductIds : HandleDeleteProductCall(id)
    \/ \E id \in ProductIds : HandleDeleteProductResolve(id)
    \/ \E id \in ProductIds : HandleDeleteProductReject(id)

Spec == Init /\ [][Next]_vars

\* ------------------------------------------------------------- view runs
\* The hook once its mount load has resolved with the collection `products`
Loaded(products) ==
    /\ mounted = TRUE
    /\ allProducts = products
    /\ loading = FALSE
    /\ error = NullError
    /\ loads = <<[status |-> "ok", startSet |-> <<>>]>>
    /\ pendingDeletes = EmptyBag
    /\ last = [op |-> "loadOk", arg |-> 1, result |-> "void",
               prev |-> [allProducts |-> <<>>, loading |-> TRUE, error |-> NullError,
                         page |-> page, rowsPerPage |-> rowsPerPage],
               started |-> <<>>, data |-> products, changed |-> FALSE]

\* the synchronous operations: filter and pagination setters of the Inventory
\* view.  They read and write page, searchTerm, dateRange and rowsPerPage only,
\* which no asynchronous operation touches, so they are run apart from Next, on
\* every collection a load may have left.
InitView ==
    /\ ViewInit
    /\ Shows("inventory")
    /\ \E products \in Responses : Loaded(products)

NextView ==
    \/ \E term \in SearchTerms : SetSearchTerm(term)
    \/ \E range \in DateRanges : SetDateRange(range)
    \/ \E n \in 0..MaxPage : SetPage(n)
    \/ \E n \in RowsPerPageOptions : HandleRowsPerPageChange(n)
    \/ HandleClearFilters

SpecView == InitView /\ [][NextView]_vars

\* ----------------------------------------------------------- filter runs
\* instants at the edges of the days 1..MaxDay: the last millisecond of a day
\* and the first of the next
EdgeTimes ==
    UNION {{d * MsPerDay - 1, d * MsPerDay} : d \in 1..(MaxDay + 1)}

\* "Red Shirt" created at each edge instant, and "CAFÉ Hat" created at noon of
\* day 2
CafeHat == <<"C","A","F","É"," ","H","a","t">>

FilterCatalog ==
    {[id |-> 1, title |-> RedShirt, creationAt |-> t] : t \in EdgeTimes}
    \cup {[ProductOf(2) EXCEPT !.title = CafeHat]}

ShirtUpper == <<"S","H","I","R","T">>
CafeLower == <<"c","a","f","é"," ">>
FilterTerms == {<<>>, ShirtUpper, CafeLower}

InitFilter ==
    /\ ViewInit
    /\ Shows("inventory")
    /\ \E products \in SeqsUpTo(FilterCatalog, MaxLen) : Loaded(products)

NextFilter ==
    \/ \E term \in FilterTerms : SetSearchTerm(term)
    \/ \E range \in DateRanges : SetDateRange(range)
    \/ HandleClearFilters

SpecFilter == InitFilter /\ [][NextFilter]_vars

\* ------------------------------------------------------ filter panel runs
\* the inputs of ProductFilters as the Inventory wires them: the search box to
\* setSearchTerm, the two date inputs and the clear button
InitPanel ==
    /\ ViewInit
    /\ Shows("inventory")
    /\ \E products \in Responses : Loaded(products)

NextPanel ==
    \/ \E term \in SearchTerms : SetSearchTerm(term)
    \/ \E value \in Dates : HandleStartDateChange(value)
    \/ \E value \in Dates : HandleEndDateChange(value)
    \/ HandleClearFilters

SpecPanel == InitPanel /\ [][NextPanel]_vars

\* ------------------------------------------------------- pagination runs
PageSizes == RowsPerPageOptions \cup {1, 2, 3}

\* the hook called with options.pageSize = pageSize after a load of n products
InitPage ==
    /\ page = 0
    /\ searchTerm = <<>>
    /\ dateRange = [start |-> Null, end |-> Null]
    /\ rowsPerPage \in PageSizes
    /\ DashboardInit
    /\ form = NoSubmission
    /\ Shows("inventory")
    /\ \E n \in 0..MaxItems : Loaded([i \in 1..n |-> ProductOf(i)])

NextPage ==
    \/ \E n \in 0..MaxPage : SetPage(n)
    \/ \E n \in RowsPerPageOptions : HandleRowsPerPageChange(n)

SpecPage == InitPage /\ [][NextPage]_vars

\* ================================================================ claims
Pending(n) == n \in 1..Len(loads) /\ loads[n].status = "pending"

Ids(products) == {products[i].id : i \in 1..Len(products)}

\* -------------------------------------------------------------------- C1
\* C1: a response of an earlier-issued load() that arrives after the response
\* of a later-issued load() is ignored: it leaves the authoritative set as the
\* later response made it.
C1_StaleResponseIgnored ==
    (/\ last.op = "loadOk"
     /\ \E j \in (last.arg + 1)..Len(loads) : loads[j].status = "ok")
    => allProducts = last.prev.allProducts

\* -------------------------------------------------------------------- C2
\* C2: a load() that succeeds makes the authoritative set exactly the fetched
\* sequence: same elements, same order, nothing of the previous set merged in.
C2_LoadReplaces ==
    last.op = "loadOk" => allProducts = last.data

\* a load succeeded over a non-empty set, one of whose products the response lacks
C2_Witness ==
    /\ last.op = "loadOk"
    /\ last.data # <<>>
    /\ Ids(last.prev.allProducts) \ Ids(last.data) # {}
    /\ allProducts = last.data

\* -------------------------------------------------------------------- C3
\* C3 as stated: after a failed load() the authoritative set is the set of the
\* moment that load() was called, and error is not null.
C3_SetAsAtCall ==
    last.op = "loadFail" => (allProducts = last.started /\ error # NullError)

\* C3: a failing load() leaves the authoritative set exactly as it was when the
\* failure arrived, sets error to the user-facing message, and returns normally.
C3_FailedLoadKeepsSet ==
    last.op = "loadFail" =>
        /\ allProducts = last.prev.allProducts
        /\ error = LoadErrorMessage
        /\ error # NullError
        /\ last.result = "void"

\* a load failed over a non-empty set that changed since the load was called
C3_Witness ==
    /\ last.op = "loadFail"
    /\ allProducts # <<>>
    /\ allProducts # last.started
    /\ error = LoadErrorMessage

\* -------------------------------------------------------------------- C4
\* C4: once the hook is mounted, loading is true exactly while some load() is
\* in flight, overlapping calls included.
C4_LoadingWhileInFlight ==
    mounted => (loading <=> \E n \in 1..Len(loads) : Pending(n))

\* -------------------------------------------------------------------- C5
\* C5: a setSearchTerm or setDateRange call that changes the filter leaves the
\* current page at 0.
C5_FilterChangeResetsPage ==
    (last.op \in {"setSearchTerm", "setDateRange"} /\ last.changed) => page = 0

\* -------------------------------------------------------------------- C6
\* C6: changing the rows per page leaves the current page at 0 whatever it
\* was; setPage(n) sets the page to n and changes nothing else.
C6_PageSizeResetsPage ==
    [][/\ last'.op = "handleRowsPerPageChange" => (page' = 0 /\ rowsPerPage' = last'.arg)
       /\ last'.op = "setPage" =>
            /\ page' = last'.arg
            /\ UNCHANGED <<rowsPerPage, searchTerm, dateRange, allProducts, loading,
                           error, mounted, loads, pendingDeletes>>]_vars

\* the rows per page were changed while a later page was shown
C6_Witness ==
    /\ last.op = "handleRowsPerPageChange"
    /\ last.prev.page > 0
    /\ rowsPerPage # last.prev.rowsPerPage
    /\ page = 0

\* -------------------------------------------------------------------- C7
\* two characters that are the same letter, in either case
SameLetter(a, b) ==
    \/ a = b
    \/ \E i \in 1..Len(UpperLetters) : {a, b} = {UpperLetters[i], LowerLetters[i]}

ContainsIgnoringCase(title, term) ==
    \E k \in 0..(Len(title) - Len(term)) :
        \A j \in 1..Len(term) : SameLetter(title[k + j], term[j])

\* the calendar day an instant falls on
DayOf(t) == t \div MsPerDay

InDateRange(product, range) ==
    /\ range.start # Null => DayOf(product.creationAt) >= range.start
    /\ range.end # Null => DayOf(product.creationAt) <= range.end

\* the positions of P whose product the filter state keeps
KeptPositions(P, term, range) ==
    {i \in 1..Len(P) : ContainsIgnoringCase(P[i].title, term) /\ InDateRange(P[i], range)}

\* the k-th smallest member of a set of positions
KthOf(positions, k) ==
    CHOOSE i \in positions : Cardinality({j \in positions : j < i}) = k - 1

\* C7: the filtered view is the subsequence of the authoritative set, in its
\* order, of the products whose title contains searchTerm ignoring case and
\* whose creation day is not before the start day (when set) and not after the
\* end day (when set), so any instant of the end day is included.
C7_FilteredView ==
    LET kept == KeptPositions(allProducts, searchTerm, dateRange)
        view == filteredProducts
    IN  /\ Len(view) = Cardinality(kept)
        /\ \A k \in 1..Len(view) : view[k] = allProducts[KthOf(kept, k)]

\* both bounds set to the same day: a product created in that day's last
\* millisecond is kept next to a dropped one, and the search term matches in
\* another case than the title's
C7_Witness ==
    /\ dateRange.start # Null
    /\ dateRange.end = dateRange.start
    /\ searchTerm = ShirtUpper
    /\ Len(allProducts) = 2
    /\ Len(filteredProducts) = 1
    /\ filteredProducts[1] = allProducts[2]
    /\ filteredProducts[1].creationAt = DayjsDate(dateRange.end) + (MsPerDay - 1)

\* -------------------------------------------------------------------- C8
\* C8: the paginated view is R[p*s .. (p+1)*s) clipped at the end of R, and is
\* empty whenever p*s >= Len(R); 12 products at 10 per page give 10, 2 and 0.
C8_PaginatedView ==
    LET R == filteredProducts
        p == page
        s == rowsPerPage
        count == Max(0, Min(s, Len(R) - p * s))
    IN  /\ paginatedProducts = [k \in 1..count |-> R[p * s + k]]
        /\ p * s >= Len(R) => paginatedProducts = <<>>
        /\ (Len(R) = 12 /\ s = 10 /\ p \in 0..2) =>
               Len(paginatedProducts) = (IF p = 0 THEN 10 ELSE IF p = 1 THEN 2 ELSE 0)

\* 12 products at 10 per page, the second page shown: products 11 and 12
C8_Witness ==
    /\ Len(filteredProducts) = 12
    /\ rowsPerPage = 10
    /\ page = 1
    /\ last.op = "setPage"
    /\ paginatedProducts = <<filteredProducts[11], filteredProducts[12]>>

\* -------------------------------------------------------------------- C9
\* C9: a remove(id) that succeeds at the catalog returns true and leaves the
\* previous set without every record of that id, the others in their order.
C9_RemoveDeletesId ==
    last.op = "deleteOk" =>
        /\ last.result = "true"
        /\ LET Other(p) == p.id # last.arg
           IN  allProducts = SelectSeq(last.prev.allProducts, Other)

\* a delete succeeded on a set holding the id and another product
C9_Witness ==
    /\ last.op = "deleteOk"
    /\ last.arg \in Ids(last.prev.allProducts)
    /\ allProducts # <<>>
    /\ last.arg \notin Ids(allProducts)

\* ------------------------------------------------------------------- C10
\* C10: a remove(id) that fails at the catalog returns false and leaves the
\* authoritative set, loading and error as they were: the product stays listed.
C10_FailedRemoveKeepsAll ==
    last.op = "deleteFail" =>
        /\ last.result = "false"
        /\ allProducts = last.prev.allProducts
        /\ loading = last.prev.loading
        /\ error = last.prev.error

\* a delete of a listed product failed
C10_Witness ==
    /\ last.op = "deleteFail"
    /\ last.arg \in Ids(allProducts)
    /\ last.result = "false"

\* ------------------------------------------------------------ metric runs
\* The Dashboard's metrics are a function of the collection alone, so they run
\* on their own: the hook loaded with each collection, then rendered.
Clothes == <<"C","l","o","t","h","e","s">>
Zeta == <<"Z","e","t","a">>
Seven == <<"7">>
Ten == <<"1","0">>
Title31 == [i \in 1..(TitleLimit + 1) |-> LowerChars[((i - 1) % Len(LowerChars)) + 1]]
Title30 == SubSeq(Title31, 1, TitleLimit)

\* prices 10.005 (twice), 0.995, 0.004, 0 and 0.005; categories Clothes, "7",
\* none, "10", Clothes and Zeta; products 1 and 2 created at the same instant
MetricsTitle(i) ==
    IF i = 1 THEN RedShirt ELSE IF i = 2 THEN BlueHat ELSE IF i = 3 THEN Title31
    ELSE IF i = 4 THEN Title30 ELSE Tee
MetricsPrice(i) ==
    IF i \in {1, 2} THEN 10005 ELSE IF i = 3 THEN 995 ELSE IF i = 4 THEN 4
    ELSE IF i = 5 THEN 0 ELSE 5
MetricsCategory(i) ==
    IF i \in {1, 5} THEN <<[name |-> Clothes]>> ELSE IF i = 2 THEN <<[name |-> Seven]>>
    ELSE IF i = 3 THEN <<>> ELSE IF i = 4 THEN <<[name |-> Ten]>> ELSE <<[name |-> Zeta]>>
MetricsProduct(i) ==
    [id |-> i, title |-> MetricsTitle(i), price |-> MetricsPrice(i),
     category |-> MetricsCategory(i),
     creationAt |-> (IF i = 1 THEN 2 ELSE i) * MsPerDay + (MsPerDay \div 2)]

MetricsIds == 1..6
MetricsCatalog == {MetricsProduct(i) : i \in MetricsIds}

MaxCollection == 3   \* every collection of up to MaxCollection catalog products
MaxRun == 7          \* and every run of up to MaxRun products around the catalog

Run(a, n) == [i \in 1..n |-> MetricsProduct(((a + i - 1) % Cardinality(MetricsIds)) + 1)]

\* a product of the category named "__proto__"
ProtoProduct == [MetricsProduct(6) EXCEPT !.id = 7, !.category = <<[name |-> ProtoKey]>>]

MetricsCollections ==
    SeqsUpTo(MetricsCatalog, MaxCollection)
    \cup SeqsUpTo({ProtoProduct, MetricsProduct(1)}, 2)
    \cup {Run(a, n) : a \in 0..(Cardinality(MetricsIds) - 1), n \in 0..MaxRun}

InitMetrics ==
    /\ ViewInit
    /\ Shows("dashboard")
    /\ \E products \in MetricsCollections : Loaded(products)

NextMetrics == DashboardRender

SpecMetrics == InitMetrics /\ [][NextMetrics]_vars

\* -------------------------------------------------------------- form runs
\* A form page is shown and nothing else is mounted; the user submits and
\* moves between the pages while requests and timers are pending.
InitForms ==
    /\ mounted = FALSE
    /\ allProducts = <<>>
    /\ loading = TRUE
    /\ error = NullError
    /\ ViewInit
    /\ \E path \in {"new", "edit"} : Shows(path)
    /\ loads = <<>>
    /\ pendingDeletes = EmptyBag
    /\ last = [op |-> "init", arg |-> 0, result |-> "none",
               prev |-> [allProducts |-> <<>>, loading |-> TRUE, error |-> NullError,
                         page |-> 0, rowsPerPage |-> DefaultRowsPerPage],
               started |-> <<>>, data |-> <<>>, changed |-> FALSE]

NextForms ==
    \/ HandleSubmitCall
    \/ \E own \in BOOLEAN : HandleSubmitResolve(own)
    \/ \E own \in BOOLEAN : HandleSubmitReject(own)
    \/ HandleCloseSnackbar
    \/ NavigateTimer
    \/ \E path \in Routes : Navigation(path)
    \/ MountEffect
    \/ DashboardRender

SpecForms == InitForms /\ [][NextForms]_vars

\* a timer that is armed fires after its 1500 ms, and the effects of a page
\* that was committed are run
SpecFormsFair == SpecForms /\ WF_vars(NavigateTimer) /\ WF_vars(MountEffect)

\* ------------------------------------------------------------------- C11
\* C11 as stated: a remove(id) of an id that is not in the set returns true and
\* leaves the set as it was, whatever the catalog answered.
C11_AbsentRemoveSucceeds ==
    (last.op \in {"deleteOk", "deleteFail"} /\ last.arg \notin Ids(last.prev.allProducts)) =>
        /\ last.result = "true"
        /\ allProducts = last.prev.allProducts

\* C11 amended: a remove(id) of an id that is not in the set leaves the set as it
\* was, and returns what the catalog's delete answered: true when it succeeded,
\* false when it failed.
C11_AbsentRemoveKeepsSet ==
    (last.op \in {"deleteOk", "deleteFail"} /\ last.arg \notin Ids(last.prev.allProducts)) =>
        /\ allProducts = last.prev.allProducts
        /\ last.result = (IF last.op = "deleteOk" THEN "true" ELSE "false")

\* a delete of an id that had already left the set succeeded at the catalog, on
\* a set that still lists another product
C11_Witness ==
    /\ last.op = "deleteOk"
    /\ last.arg \notin Ids(last.prev.allProducts)
    /\ last.result = "true"
    /\ allProducts # <<>>
    /\ allProducts = last.prev.allProducts

\* ------------------------------------------------------------------- C12
\* C12, the part after the first load() call: a load() that succeeds ends in
\* ready (loading false, error null), one that fails ends in error (loading
\* false, error set).
C12_LoadEndsReadyOrError ==
    /\ last.op = "loadOk" => (~loading /\ error = NullError)
    /\ last.op = "loadFail" => (~loading /\ error # NullError)

\* ------------------------------------------------------------------- C13
\* C13: setSearchTerm, setDateRange and setPage leave the authoritative set,
\* loading and error as they were and start no request at the catalog.
C13_SettersKeepSet ==
    [][last'.op \in {"setSearchTerm", "setDateRange", "setPage"} =>
           UNCHANGED <<allProducts, loading, error, loads, pendingDeletes>>]_vars

\* the search term was changed on a loaded set and hides a part of it, and no
\* load is in flight
C13_Witness ==
    /\ last.op = "setSearchTerm"
    /\ last.changed
    /\ allProducts = last.prev.allProducts
    /\ Len(filteredProducts) < Len(allProducts)
    /\ \A n \in 1..Len(loads) : ~Pending(n)

\* ------------------------------------------------------------------- C14
\* C14: with an empty search term and no date bound the filtered view is the
\* whole authoritative set in its order, and so it is after handleClearFilters
\* whatever the filter was before.
C14_EmptyFilterShowsAll ==
    /\ (searchTerm = <<>> /\ dateRange = [start |-> Null, end |-> Null]) =>
           filteredProducts = allProducts
    /\ last.op = "handleClearFilters" => filteredProducts = allProducts

\* the filter hid every product of a set of two, and the clear button brought
\* both back
C14_Witness ==
    /\ last.op = "handleClearFilters"
    /\ last.arg = 0
    /\ Len(allProducts) = 2
    /\ filteredProducts = allProducts

\* ------------------------------------------------------------------- C15
\* C15: a date range whose start is a later day than its end gives an empty
\* filtered view, for every set and every search term.
C15_InvertedRangeIsEmpty ==
    (dateRange.start # Null /\ dateRange.end # Null /\ dateRange.start > dateRange.end) =>
        filteredProducts = <<>>

\* start on day 2 and end on day 1, no search term, on a set holding a product
\* created on day 1 and one created on day 2
C15_Witness ==
    /\ dateRange = [start |-> 2, end |-> 1]
    /\ searchTerm = <<>>
    /\ \E i, j \in 1..Len(allProducts) :
           DayOf(allProducts[i].creationAt) = 1 /\ DayOf(allProducts[j].creationAt) = 2
    /\ filteredProducts = <<>>

\* ------------------------------------------------------------------- C16
\* the prices of a collection, in thousandths, and their exact sum
PricesOf(P) == [i \in 1..Len(P) |-> P[i].price]

RECURSIVE ExactSum(_)
ExactSum(prices) == IF prices = <<>> THEN 0 ELSE Head(prices) + ExactSum(Tail(prices))

IsDigit(c) == c \in {"0","1","2","3","4","5","6","7","8","9"}

DigitOf(c) == CHOOSE d \in 0..9 : NatToString(d) = <<c>>

\* the number a string of digits denotes
RECURSIVE NumberOf(_, _)
NumberOf(digits, sofar) ==
    IF digits = <<>> THEN sofar
    ELSE NumberOf(Tail(digits), sofar * 10 + DigitOf(Head(digits)))

\* C16: totalInventoryValue is a string of digits with exactly two fraction
\* digits that denotes the exact sum of the prices rounded once, half up, to
\* hundredths; the prices 10.005 and 10.005 give "20.01".
C16_TotalIsExactSum ==
    last.op = "render" =>
        LET total == metrics.totalInventoryValue
            n == Len(total)
            exact == ExactSum(PricesOf(filteredProducts))
            whole == SubSeq(total, 1, n - 3)
            fraction == SubSeq(total, n - 1, n)
            hundredths == NumberOf(whole, 0) * 100 + NumberOf(fraction, 0)
        IN  /\ n >= 4
            /\ total[n - 2] = "."
            /\ \A i \in (1..n) \ {n - 2} : IsDigit(total[i])
            /\ Len(whole) > 1 => whole[1] # "0"
            /\ 10 * hundredths - 5 <= exact
            /\ exact < 10 * hundredths + 5
            /\ PricesOf(filteredProducts) = <<10005, 10005>> =>
                   total = <<"2","0",".","0","1">>

\* two products of 10.005 each were rendered as a total of "20.01"
C16_Witness ==
    /\ last.op = "render"
    /\ PricesOf(filteredProducts) = <<10005, 10005>>
    /\ metrics.totalInventoryValue = <<"2","0",".","0","1">>

\* ------------------------------------------------------------------- C17
\* C17: the metrics of an empty collection are the zero state: no product, a
\* total of "0.00", the top category N/A with count 0, and three empty lists.
C17_EmptyGivesZeroState ==
    (last.op = "render" /\ filteredProducts = <<>>) =>
        /\ metrics.totalProducts = 0
        /\ metrics.totalInventoryValue = <<"0",".","0","0">>
        /\ metrics.topCategory = [name |-> <<"N","/","A">>, count |-> 0]
        /\ metrics.categoryDistribution = <<>>
        /\ metrics.topExpensiveProducts = <<>>
        /\ metrics.recentProducts = <<>>
        /\ DOMAIN metrics = {"totalProducts", "totalInventoryValue", "topCategory",
                             "categoryDistribution", "topExpensiveProducts", "recentProducts"}

\* the Dashboard rendered an empty collection that a load had delivered
C17_Witness ==
    /\ last.op = "render"
    /\ last.arg = 0
    /\ ~loading
    /\ allProducts = <<>>
    /\ metrics.totalInventoryValue = <<"0",".","0","0">>

\* ------------------------------------------------------------------- C18
\* the category a product is counted under: its category.name, or the
\* uncategorized label when it has no category
LabelOf(P, i) == IF P[i].category = <<>> THEN SinCategoria ELSE P[i].category[1].name

CountOf(P, i) == Cardinality({j \in 1..Len(P) : LabelOf(P, j) = LabelOf(P, i)})

\* C18 as stated: when several categories share the largest product count,
\* topCategory is the one of them that occurs first in the collection.
C18_FirstSeenWinsTie ==
    LET P == filteredProducts
        Largest(i) == \A j \in 1..Len(P) : CountOf(P, j) <= CountOf(P, i)
        tied == \E i, j \in 1..Len(P) :
                    Largest(i) /\ Largest(j) /\ LabelOf(P, i) # LabelOf(P, j)
    IN  (last.op = "render" /\ tied) =>
            LET first == CHOOSE i \in 1..Len(P) :
                             Largest(i) /\ \A j \in 1..(i - 1) : ~Largest(j)
            IN  metrics.topCategory = [name |-> LabelOf(P, first), count |-> CountOf(P, first)]

\* ------------------------------------------------------------------- C19
\* the positions at which a category occurs for the first time
FirstOccurrences(P) ==
    {i \in 1..Len(P) : \A j \in 1..(i - 1) : LabelOf(P, j) # LabelOf(P, i)}

\* C19 as stated: categoryDistribution has one entry per category, holding its
\* name and the number of its products, in the order in which the categories
\* first occur in the collection.
C19_DistributionInFirstSeenOrder ==
    last.op = "render" =>
        LET P == filteredProducts
            dist == metrics.categoryDistribution
            firsts == FirstOccurrences(P)
        IN  /\ Len(dist) = Cardinality(firsts)
            /\ \A k \in 1..Len(dist) :
                   /\ dist[k].name = LabelOf(P, KthOf(firsts, k))
                   /\ dist[k].value = CountOf(P, KthOf(firsts, k))

\* ------------------------------------------------------------------- C20
\* C20: topExpensiveProducts has min(5, n) entries; entry k is the product with
\* exactly k - 1 products ahead of it, a product being ahead of another when
\* its price is higher, or equal and it stands earlier in the collection; the
\* entry holds that product's price and its title, cut to 30 characters plus
\* "..." when longer than 30.
C20_TopExpensive ==
    last.op = "render" =>
        LET P == filteredProducts
            top == metrics.topExpensiveProducts
            Ahead(i) == {j \in 1..Len(P) :
                            \/ P[j].price > P[i].price
                            \/ (P[j].price = P[i].price /\ j < i)}
        IN  /\ Len(top) = (IF Len(P) < 5 THEN Len(P) ELSE 5)
            /\ \A k \in 1..Len(top) :
                   LET i == CHOOSE i \in 1..Len(P) : Cardinality(Ahead(i)) = k - 1
                       title == P[i].title
                   IN  /\ top[k].price = P[i].price
                       /\ Len(title) <= 30 => top[k].title = title
                       /\ Len(title) > 30 =>
                              top[k].title = SubSeq(title, 1, 30) \o <<".", ".", ".">>
                       /\ DOMAIN top[k] = {"title", "price"}

\* seven products rendered: the three of price 10.005 lead in their order in
\* the collection (positions 1, 2 and 7), then the one of 0.995 with its title
\* of 31 characters cut, then the one of 0.005
C20_Witness ==
    /\ last.op = "render"
    /\ Len(filteredProducts) = 7
    /\ Len(metrics.topExpensiveProducts) = 5
    /\ filteredProducts[7].title = RedShirt
    /\ [k \in 1..3 |-> metrics.topExpensiveProducts[k].title] = <<RedShirt, BlueHat, RedShirt>>
    /\ metrics.topExpensiveProducts[4].title = Title30 \o <<".", ".", ".">>
    /\ metrics.topExpensiveProducts[5].price = 5

\* ------------------------------------------------------------------- C21
\* C21: recentProducts has min(5, n) entries; entry k is the product with
\* exactly k - 1 products ahead of it, a product being ahead of another when it
\* was created later, or at the same instant and it stands earlier in the
\* collection.
C21_RecentProducts ==
    last.op = "render" =>
        LET P == filteredProducts
            recent == metrics.recentProducts
            Newer(i) == {j \in 1..Len(P) :
                            \/ P[j].creationAt > P[i].creationAt
                            \/ (P[j].creationAt = P[i].creationAt /\ j < i)}
        IN  /\ Len(recent) = (IF Len(P) < 5 THEN Len(P) ELSE 5)
            /\ \A k \in 1..Len(recent) :
                   recent[k] = P[CHOOSE i \in 1..Len(P) : Cardinality(Newer(i)) = k - 1]

\* seven products rendered, the last created at the same instant as the first
\* two: the five most recent are products 6, 5, 4, 3 and then product 1, the
\* first in the collection of the three created at that instant
C21_Witness ==
    /\ last.op = "render"
    /\ Len(filteredProducts) = 7
    /\ filteredProducts[1].creationAt = filteredProducts[2].creationAt
    /\ filteredProducts[7].creationAt = filteredProducts[2].creationAt
    /\ [k \in 1..5 |-> metrics.recentProducts[k].id] = <<6, 5, 4, 3, 1>>
    /\ metrics.recentProducts[5] = filteredProducts[1]

\* ------------------------------------------------------------------- C22
\* C22 as stated: of two renders of the Dashboard in a row, with no operation
\* on the authoritative set in between, the second reuses the cached snapshot:
\* useDashboardMetrics' function is not run again.
C22_SnapshotReused ==
    [][(last.op = "render" /\ last'.op = "render" /\ allProducts' = allProducts) =>
           (memo'.runs = memo.runs /\ last'.result = "cached")]_vars

\* ------------------------------------------------------------------- C23
\* C23 as stated: after a create or update request succeeded, a load() of the
\* product collection follows eventually; and a failed request arms no
\* navigation and starts no load.
C23_ReloadFollowsSuccess ==
    /\ (last.op = "submitOk") ~> (last.op \in {"mount", "refreshProducts"})
    /\ [][last'.op = "submitFail" =>
              (route' = route /\ form'.timers = form.timers /\ loads' = loads)]_vars

\* ------------------------------------------------------------------- C24
\* C24: a fetch-all request is sent by a load() invocation only, the mount
\* effect or refreshProducts, one request per invocation; so after a failed
\* load() the next request is the one of a refreshProducts call.
C24_NoRetry ==
    [][/\ Len(loads') # Len(loads) =>
              (Len(loads') = Len(loads) + 1 /\ last'.op \in {"mount", "refreshProducts"})
       /\ (last'.op \in {"mount", "refreshProducts"} /\ last' # last) =>
              (Len(loads') = Len(loads) + 1 /\ last'.arg = Len(loads'))
       /\ (last.op = "loadFail" /\ Len(loads') # Len(loads)) =>
              last'.op = "refreshProducts"]_vars

\* the only load() failed and no request is in flight after it
C24_Witness ==
    /\ last.op = "loadFail"
    /\ Len(loads) = 1
    /\ loads[1].status = "failed"
    /\ error = LoadErrorMessage
    /\ ~loading

\* ------------------------------------------------------------------- C25
\* C25: a render of the Dashboard, which evaluates the filtered view and the
\* metrics (with their two sorts), leaves the authoritative set as it was: the
\* same products in the same order.
C25_ViewsLeaveSetAlone ==
    [][last'.op = "render" => allProducts' = allProducts]_vars

\* a collection that is not in descending order of price was rendered: the
\* metrics list its products by price, the set keeps its order
C25_Witness ==
    /\ last.op = "render"
    /\ Len(allProducts) = 3
    /\ allProducts[1].price < allProducts[2].price
    /\ allProducts[2].price < allProducts[3].price
    /\ metrics.topExpensiveProducts[1].price = allProducts[3].price
    /\ allProducts = last.prev.allProducts

\* ------------------------------------------------------------------- C27
\* C27 as stated: once no load() is in flight, error reflects the load() issued
\* last: null (and not loading) if it succeeded, set if it failed.
C27_ErrorOfLastIssued ==
    (Len(loads) > 0 /\ \A n \in 1..Len(loads) : ~Pending(n)) =>
        /\ ~loading
        /\ loads[Len(loads)].status = "ok" => error = NullError
        /\ loads[Len(loads)].status = "failed" => error # NullError

\* ------------------------------------------------------------------- C28
\* C28 as stated: when a remove(id) has just succeeded and a load() that was in
\* flight at that moment resolves next, the product removed is not in the set.
C28_RemovedStaysOut ==
    [][(last.op = "deleteOk" /\ last'.op = "loadOk" /\ Pending(last'.arg)) =>
           last.arg \notin Ids(allProducts')]_vars

\* ------------------------------------------------------------------- C26
\* C26 as stated: whatever date changes were made through the filter panel,
\* when both start and end are set, start is not a later day than end.
C26_StartNotAfterEnd ==
    (dateRange.start # Null /\ dateRange.end # Null) => dateRange.start <= dateRange.end

\* ------------------------------------------------------------------- C29
RECURSIVE PagesUpTo(_, _, _)
PagesUpTo(R, n, s) ==
    IF n = 0 THEN <<>> ELSE PagesUpTo(R, n - 1, s) \o PaginateProducts(R, n - 1, s)

\* C29: totalPages is the least n with n * pageSize >= Len(R); the slices of
\* pages 0 .. totalPages - 1, one after the other, are the filtered view R;
\* each position of R lies on exactly one of them; none of them is empty.
C29_PagesPartitionView ==
    LET R == filteredProducts
        s == rowsPerPage
        n == totalPages
        OnPage(i, q) == \E k \in 1..Len(PaginateProducts(R, q, s)) :
                            q * s + k = i /\ PaginateProducts(R, q, s)[k] = R[i]
    IN  /\ n >= 0
        /\ n * s >= Len(R)
        /\ (n - 1) * s < Len(R)
        /\ PagesUpTo(R, n, s) = R
        /\ \A q \in 0..(n - 1) : PaginateProducts(R, q, s) # <<>>
        /\ \A i \in 1..Len(R) : Cardinality({q \in 0..(n - 1) : OnPage(i, q)}) = 1

\* 12 products at 5 per page: three pages, and the last one, now shown, holds
\* products 11 and 12
C29_Witness ==
    /\ Len(filteredProducts) = 12
    /\ rowsPerPage = 5
    /\ totalPages = 3
    /\ page = 2
    /\ last.op = "setPage"
    /\ paginatedProducts = <<filteredProducts[11], filteredProducts[12]>>
    /\ PagesUpTo(filteredProducts, 3, 5) = filteredProducts

\* ------------------------------------------------------------------- C30
RECURSIVE SumOfValues(_)
SumOfValues(dist) == IF dist = <<>> THEN 0 ELSE Head(dist).value + SumOfValues(Tail(dist))

\* C30 as stated: for a non-empty collection, totalProducts is its length, the
\* counts of categoryDistribution add up to totalProducts, topCategory is one
\* of the entries of categoryDistribution and no entry has a larger count, and
\* topExpensiveProducts and recentProducts have min(5, totalProducts) entries.
C30_SnapshotConsistent ==
    (last.op = "render" /\ filteredProducts # <<>>) =>
        LET dist == metrics.categoryDistribution
            top == metrics.topCategory
            total == metrics.totalProducts
            few == IF total < 5 THEN total ELSE 5
        IN  /\ total = Len(filteredProducts)
            /\ SumOfValues(dist) = total
            /\ \E k \in 1..Len(dist) : dist[k].name = top.name /\ dist[k].value = top.count
            /\ \A k \in 1..Len(dist) : dist[k].value <= top.count
            /\ Len(metrics.topExpensiveProducts) = few
            /\ Len(metrics.recentProducts) = few

====
